---- MODULE Spec2Model ----
(***************************************************************************)
(* Model of the quote-fetch layer of the Quote-of-the-day client           *)
(* (App component with lastCallRef / recentRef, fetchZen, tryUrl,          *)
(* buildCandidates, fetchAllQuotesForDay, pickDistinctRandom).             *)
(*                                                                         *)
(* One action is one run of JavaScript between two suspension points: a    *)
(* click handler or effect up to its first pending network request, or the *)
(* continuation that runs when a pending request settles, up to the next   *)
(* pending request or the end of load.                                     *)
(***************************************************************************)
EXTENDS Integers, Sequences, FiniteSets, TLC

\* ---------------------------------------------------------------- bounds
StartTime == 100000          \* Date.now() when the component mounts
MaxLoads == 2                \* load calls that pass the gate in one run
MaxAccepts == 13             \* quotes accepted in one run of the recent ring alone
MaxFavSteps == 4             \* clicks in one run of the favorites alone

\* ------------------------------------------------------- program constants
THROTTLE_MS == 3500
RANDOM_GAP_MS == 450
BACKOFF_429_MS == 12000
RECENT_MAX == 10
TIMEOUT_MS == 10000
MAX_TRIES == 30

\* Clock readings (ms after StartTime) at which something may happen.
Offsets == {0, 3050, 3500, 10000, 12000, 15500}
Times == {StartTime + o : o \in Offsets}
Slots == 1..MaxLoads
DayKey == "2025-06-01"
NextDayKey == "2025-06-02"
DayKeys == {DayKey, NextDayKey}

\* ------------------------------------------------------------ JSON values
\* A string that may hold JSON: has = it is a string at all (not undefined),
\* wf = it is well-formed JSON, arr/items = the value it denotes.
NoStr == [has |-> FALSE, wf |-> FALSE, arr |-> FALSE, items |-> <<>>]
StrOf(arr, items) == [has |-> TRUE, wf |-> TRUE, arr |-> arr, items |-> items]
BadStr == [has |-> TRUE, wf |-> FALSE, arr |-> FALSE, items |-> <<>>]

\* A parsed JSON value: an array of elements, or an object that may carry a
\* contents string (the allorigins envelope).
JArr(items) == [arr |-> TRUE, items |-> items, contents |-> NoStr]
JObj == [arr |-> FALSE, items |-> <<>>, contents |-> NoStr]
JEnv(s) == [arr |-> FALSE, items |-> <<>>, contents |-> s]
JNull == [arr |-> FALSE, items |-> <<>>, contents |-> NoStr]

\* A response body: well-formed JSON text denoting val, or anything else.
Body(v) == [wf |-> TRUE, val |-> v]
BadBody == [wf |-> FALSE, val |-> JNull]

\* Array elements { q, a }; the empty string stands for a missing or falsy field.
E1 == [q |-> "t1", a |-> "a1"]
E2 == [q |-> "t2", a |-> "a2"]
ENoQ == [q |-> "", a |-> "a1"]
ENoA == [q |-> "t1", a |-> ""]

\* ------------------------------------------------------------- Quote | null
Null == [some |-> FALSE, q |-> "", a |-> ""]
Quote(q, a) == [some |-> TRUE, q |-> q, a |-> a]

\* ----------------------------------------------------------- error messages
MsgHttp(status) == IF status = 429 THEN "HTTP 429" ELSE "HTTP 500"
MsgAbort == "The operation was aborted."
MsgSyntax == "Unexpected token in JSON"
MsgUnexpected == "Unexpected API response"
MsgNoNew == "Could not find a new quote. Please try again."
MsgListFailed == "Failed to fetch quotes list"
MsgAllFailed == "All fetch attempts failed"
ErrRateLimited == "Rate limited by ZenQuotes. Please wait a few seconds and try again."
ErrTimeout == "The request timed out. Please try again."
ErrGeneric == "Failed to fetch quote"

\* msg.includes("429") and msg.includes("aborted") over the messages above
Includes429(msg) == msg \in {"HTTP 429"}
IncludesAborted(msg) == msg \in {"The operation was aborted."}

\* ------------------------------------------------------------ the network
\* What a pending request can settle to: an HTTP response, or the abort
\* raised by the timer of fetchWithTimeout.
Http(status, body) == [kind |-> "http", status |-> status, body |-> body]
Aborted == [kind |-> "abort", status |-> 0, body |-> BadBody]

SingleItems == {<<E1>>, <<E2>>, <<ENoA>>}
ListItems == {<<E1, E2>>, <<ENoQ>>, <<>>}
ItemsFor(path) == IF path = "api/quotes" THEN ListItems ELSE SingleItems

\* Bodies a candidate may answer with: a relay in "json" mode passes the
\* upstream body through, the "allorigins-get" relay wraps it in an envelope.
DirectBodies(path) == {Body(JArr(it)) : it \in ItemsFor(path)} \cup {Body(JObj), BadBody}
WrappedBodies(path) ==
    {Body(JEnv(StrOf(TRUE, it))) : it \in ItemsFor(path)}
        \cup {Body(JEnv(BadStr)), Body(JObj), BadBody}
BodiesFor(mode, path) == IF mode = "json" THEN DirectBodies(path) ELSE WrappedBodies(path)
Responses(mode, path) ==
    {Http(200, b) : b \in BodiesFor(mode, path)} \cup {Http(429, BadBody), Http(500, BadBody)}

\* ------------------------------------------------------------------ tryUrl
Ok(data) == [ok |-> TRUE, data |-> data, err |-> ""]
Throw(msg) == [ok |-> FALSE, data |-> JNull, err |-> msg]

\* r.json(): the parsed body, or a SyntaxError
RJson(body) == IF body.wf THEN Ok(body.val) ELSE Throw(MsgSyntax)

\* JSON.parse(s) for a string-or-undefined s
JSONparse(s) ==
    IF s.has /\ s.wf THEN Ok([arr |-> s.arr, items |-> s.items, contents |-> NoStr])
    ELSE Throw(MsgSyntax)

\* the envelope is returned as it came
tryUrl_NoUnwrap(resp, mode) ==
    IF resp.kind = "abort" THEN Throw(MsgAbort)
    ELSE IF resp.status # 200 THEN Throw(MsgHttp(resp.status))
    ELSE RJson(resp.body)

tryUrl(resp, mode) ==
    IF resp.kind = "abort" THEN Throw(MsgAbort)
    ELSE IF resp.status # 200 THEN Throw(MsgHttp(resp.status))
    ELSE IF mode = "json" THEN RJson(resp.body)
    ELSE LET wrapper == RJson(resp.body)
         IN IF wrapper.ok THEN JSONparse(wrapper.data.contents) ELSE wrapper

\* --------------------------------------------------------- buildCandidates
Cand(relay, path, bust, mode) == [relay |-> relay, path |-> path, bust |-> bust, mode |-> mode]

\* the wrapped endpoint of the public relay is tried before its raw endpoint
buildCandidates_GetFirst(path, bust, local, base) ==
    IF local THEN << Cand("vite-dev", path, bust, "json") >>
    ELSE (IF base # "" THEN << Cand("api-base", path, bust, "json") >> ELSE << >>)
         \o << Cand("allorigins-get", path, bust, "allorigins-get"),
               Cand("allorigins-raw", path, bust, "json"),
               Cand("jina", path, bust, "json") >>

buildCandidates(path, bust, local, base) ==
    IF local THEN << Cand("vite-dev", path, bust, "json") >>
    ELSE (IF base # "" THEN << Cand("api-base", path, bust, "json") >> ELSE << >>)
         \o << Cand("allorigins-raw", path, bust, "json"),
               Cand("allorigins-get", path, bust, "allorigins-get"),
               Cand("jina", path, bust, "json") >>

\* ------------------------------------------------------------------ state
VARIABLES
    isLocal,      \* location.hostname is a development host
    API_BASE,     \* VITE_API_BASE, "" when not configured
    mounted,      \* the mount effects have run
    now,          \* Date.now()
    lastCall,     \* lastCallRef.current
    recent,       \* recentRef.current
    quote,        \* useState: the displayed quote
    loading,      \* useState
    error,        \* useState, "" for null
    todayCache,   \* localStorage[LS.TODAY_CACHE(key)]
    allQuotes,    \* localStorage[LS.ALL_QUOTES(key)]
    loads,        \* the load calls in flight, one record per slot
    obs,          \* what the last step did
    rlAt,         \* history: when a load last ended rate-limited, and no load
                  \*   has passed the gate since; -1 otherwise
    lastPass,     \* history: per kind, when a load of that kind last passed the
                  \*   gate, if less than THROTTLE_MS ago; -1 otherwise
    started,      \* history: the number of load calls that have passed the gate
    lastTry,      \* history: per kind, when load was last called with that kind,
                  \*   if less than that kind's minimum gap ago; -1 otherwise
    ringLog,      \* history: the texts put into the recent ring, in order
    latest,       \* history: the slot of the load that passed the gate last, 0 if none
    favorites,    \* useState: the favorites list, as stored under LS.FAVS
    storedDays,   \* localStorage[LS.DAYS]
    daysVisited,  \* useState
    call          \* the last operation applied when a part is examined by itself

progVars == <<lastCall, recent, quote, loading, error, todayCache, allQuotes, loads>>
histVars == <<obs, rlAt, lastPass, started, lastTry, ringLog, latest>>
\* state of the parts that the quote-fetch layer neither reads nor writes
sideVars == <<favorites, storedDays, daysVisited, call>>
vars == <<isLocal, API_BASE, mounted, now, lastCall, recent, quote, loading, error,
          todayCache, allQuotes, loads, obs, rlAt, lastPass, started, lastTry, ringLog,
          latest, favorites, storedDays, daysVisited, call>>

Kinds == {"today", "random"}

\* A load call: pc is the fetch it waits in ("zen0", "zen1": fetchZen with
\* attempt 0, 1; "all": fetchAllQuotesForDay), idx the candidate whose request is
\* pending, lastErr the message of the last error its candidate loop caught,
\* cquote the quote of the render the call was made from.
Idle == [pc |-> "idle", which |-> "today", idx |-> 0, lastErr |-> "", tKey |-> DayKey,
         cquote |-> Null, next |-> Null, recentSet |-> {}, issuedAt |-> 0]

\* The shared program state a continuation reads and writes.
Shared == [lastCall |-> lastCall, recent |-> recent, quote |-> quote, loading |-> loading,
           error |-> error, todayCache |-> todayCache, allQuotes |-> allQuotes]

\* What the last step did: act the kind of step; for a load call, its kind and
\* the gate's decision; for a settled request, the slot, fetch and candidate it
\* belonged to, the response, what the candidate loop did (fetch), the data it
\* handed to load, how load ended (end, msg), where an accepted quote came from;
\* issued counts the requests sent in the step.
NoObs == [act |-> "none", which |-> "today", gate |-> "", slot |-> 0, phase |-> "",
          idx |-> 0, resp |-> Aborted, fetch |-> "", data |-> JNull,
          end |-> "", msg |-> "", from |-> "", issued |-> 0]

Range(s) == {s[i] : i \in DOMAIN s}
Min(a, b) == IF a < b THEN a ELSE b

\* ------------------------------------------------------------ load: pieces
\* ------------------------------------------------- variants of the code
\* (each is the definition it precedes with one plausible slip)
\* the gap of the quick kind is used for every kind
GateDrops_QuickGap(t, last, which) == t - last < RANDOM_GAP_MS

\* a call exactly one gap after the last one is still rejected
GateDrops_Strict(t, last, which) ==
    t - last <= (IF which = "random" THEN RANDOM_GAP_MS ELSE THROTTLE_MS)

\* the author field is not checked
ValidShape_NoAuthor(data) ==
    /\ data.arr
    /\ Len(data.items) > 0
    /\ data.items[1].q # ""

\* the loop does not return on the first success
fetchZenLoop_NoReturn(r, idx, n) ==
    IF idx < n THEN "continue"
    ELSE IF r.ok THEN "return"
    ELSE "throw"

\* the loop gives up on the first 429
fetchZenLoop_Stop429(r, idx, n) ==
    IF r.ok THEN "return"
    ELSE IF idx < n /\ r.err # "HTTP 429" THEN "continue"
    ELSE "throw"

\* a 429 is shown like any other error
Classify_No429(m) ==
    IF IncludesAborted(m) THEN ErrTimeout
    ELSE IF m # "" THEN m ELSE ErrGeneric

\* the backoff is not added to the timestamp
BackoffLastCall_NoBackoff(m, t, last) == IF Includes429(m) THEN t ELSE last

\* the stored quote loses its author
StringifyQuote_NoAuthor(qt) == [has |-> TRUE, wf |-> TRUE, arr |-> FALSE,
                                items |-> << [q |-> qt.q, a |-> ""] >>]

\* the ring is not cut to its maximum length
PushRecent_NoCap(ring, text) ==
    IF text \in {ring[i] : i \in DOMAIN ring} THEN ring ELSE <<text>> \o ring

\* a text is put in front without looking whether the ring has it
PushRecent_NoCheck(ring, text) ==
    LET grown == <<text>> \o ring
    IN SubSeq(grown, 1, IF Len(grown) < RECENT_MAX THEN Len(grown) ELSE RECENT_MAX)

\* the draw gives up with null when every try met a recent text
RECURSIVE PicksFrom_NullAfterTries(_, _, _)
PicksFrom_NullAfterTries(list, recentSet, i) ==
    LET all == {[some |-> TRUE, q |-> x.q, a |-> x.a] : x \in {list[j] : j \in DOMAIN list}}
    IN IF i >= MAX_TRIES THEN {[some |-> FALSE, q |-> "", a |-> ""]}
       ELSE {p \in all : p.q \notin recentSet}
                \cup (IF \E p \in all : p.q \in recentSet
                      THEN PicksFrom_NullAfterTries(list, recentSet, i + 1) ELSE {})

\* every error that is neither a 429 nor a timeout is shown with the fixed text
Classify_AlwaysGeneric(m) ==
    IF Includes429(m) THEN ErrRateLimited
    ELSE IF IncludesAborted(m) THEN ErrTimeout
    ELSE ErrGeneric

\* line 229: the minimum gap of the kind being called
minGap(which) == IF which = "random" THEN RANDOM_GAP_MS ELSE THROTTLE_MS

\* line 230: the throttle gate rejects the call
GateDrops(t, last, which) == t - last < minGap(which)

\* lines 251, 257, 265: Array.isArray(data) && data[0]?.q && data[0]?.a
ValidShape(data) ==
    /\ data.arr
    /\ Len(data.items) > 0
    /\ data.items[1].q # ""
    /\ data.items[1].a # ""

\* lines 252, 258, 266: { q: data[0].q, a: data[0].a }
FirstQuote(data) == Quote(data.items[1].q, data.items[1].a)

\* JSON.stringify of a quote / of a quote list, as stored in localStorage
StringifyQuote(qt) == StrOf(FALSE, << [q |-> qt.q, a |-> qt.a] >>)
StringifyList(list) == StrOf(TRUE, list)

\* every key of the cache is written
WriteCache_AllKeys(cache, key, qt) == [k \in DOMAIN cache |-> StringifyQuote(qt)]

\* line 253: localStorage.setItem(LS.TODAY_CACHE(key), JSON.stringify(next))
WriteCache(cache, key, qt) == [cache EXCEPT ![key] = StringifyQuote(qt)]

\* line 243: try { setQuote(JSON.parse(cached)) } catch {}
ParseCachedQuote(raw, old) ==
    LET p == JSONparse(raw)
    IN IF p.ok /\ Len(p.data.items) > 0
       THEN Quote(p.data.items[1].q, p.data.items[1].a)
       ELSE old

\* lines 287-289: the recent ring after accepting text
PushRecent(ring, text) ==
    IF text \in Range(ring) THEN ring
    ELSE LET grown == <<text>> \o ring
         IN SubSeq(grown, 1, Min(Len(grown), RECENT_MAX))

\* line 119: data.map(x => ({q: x.q, a: x.a})).filter(x => x?.q && x?.a)
RECURSIVE Cleaned(_)
Cleaned(items) ==
    IF items = <<>> THEN <<>>
    ELSE LET x == Head(items)
         IN (IF x.q # "" /\ x.a # "" THEN << [q |-> x.q, a |-> x.a] >> ELSE <<>>)
                \o Cleaned(Tail(items))

\* lines 131-139: the quotes pickDistinctRandom may return from try i on;
\* Null when the list is empty.
RECURSIVE PicksFrom(_, _, _)
PicksFrom(list, recentSet, i) ==
    LET all == {Quote(x.q, x.a) : x \in Range(list)}
    IN IF i >= MAX_TRIES THEN all
       ELSE {p \in all : p.q \notin recentSet}
                \cup (IF \E p \in all : p.q \in recentSet
                      THEN PicksFrom(list, recentSet, i + 1) ELSE {})

\* lines 133-138: the numbers of draws pickDistinctRandom may make from try i on
RECURSIVE DrawCounts(_, _, _)
DrawCounts(list, recentSet, i) ==
    IF i >= MAX_TRIES THEN {i + 1}
    ELSE (IF \E x \in Range(list) : x.q \notin recentSet THEN {i + 1} ELSE {})
            \cup (IF \E x \in Range(list) : x.q \in recentSet
                  THEN DrawCounts(list, recentSet, i + 1) ELSE {})

pickDistinctRandom(list, recentSet) ==
    IF Len(list) = 0 THEN {Null} ELSE PicksFrom(list, recentSet, 0)

\* lines 79-84, 110-111: the candidates of the fetch a load is waiting in
PathOf(ld) ==
    IF ld.pc = "all" THEN "api/quotes"
    ELSE IF ld.which = "random" THEN "api/random" ELSE "api/today"
BustOf(ld) ==
    IF ld.pc = "all" THEN "?t=now"
    ELSE IF ld.which = "random" THEN (IF ld.pc = "zen0" THEN "?t=now-0-r" ELSE "?t=now-1-r")
    ELSE ""
CandidatesOf(ld) == buildCandidates(PathOf(ld), BustOf(ld), isLocal, API_BASE)

\* lines 87-95: what the candidate loop of fetchZen does with the outcome r
\* of candidate idx out of n
fetchZenLoop(r, idx, n) ==
    IF r.ok THEN "return"
    ELSE IF idx < n THEN "continue"
    ELSE "throw"

\* lines 114-127: the same for the loop of fetchAllQuotesForDay
fetchAllLoop(r, idx, n) ==
    IF r.ok /\ r.data.arr /\ Len(r.data.items) > 0 THEN "return"
    ELSE IF idx < n THEN "continue"
    ELSE "throw"

\* lines 291-299: the message shown for a caught error
Classify(m) ==
    IF Includes429(m) THEN ErrRateLimited
    ELSE IF IncludesAborted(m) THEN ErrTimeout
    ELSE IF m # "" THEN m ELSE ErrGeneric

\* the backoff is not added to the time of the failure
BackoffLastCall_Bare(m, t, last) == IF Includes429(m) THEN BACKOFF_429_MS ELSE last

\* line 294: lastCallRef.current after a caught error at time t
BackoffLastCall(m, t, last) == IF Includes429(m) THEN t + BACKOFF_429_MS ELSE last

\* The outcome of one continuation: new shared state, new load record, and
\* what happened.
Res(s, ld, fetch, data, end, m, from, issued) ==
    [s |-> s, ld |-> ld, fetch |-> fetch, data |-> data, end |-> end, msg |-> m,
     from |-> from, issued |-> issued]

\* the displayed quote is cleared with the error
Catch_ClearsQuote(s, m, t, fetch, data) ==
    Res([s EXCEPT !.error = Classify(m),
                  !.lastCall = BackoffLastCall(m, t, s.lastCall),
                  !.quote = Null,
                  !.loading = FALSE],
        Idle, fetch, data, "error", m, "", 0)

\* the finally block leaves the loading flag as it is
Catch_StillLoading(s, m, t, fetch, data) ==
    Res([s EXCEPT !.error = Classify(m),
                  !.lastCall = BackoffLastCall(m, t, s.lastCall)],
        Idle, fetch, data, "error", m, "", 0)

\* lines 290-302: catch + finally
Catch(s, m, t, fetch, data) ==
    Res([s EXCEPT !.error = Classify(m),
                  !.lastCall = BackoffLastCall(m, t, s.lastCall),
                  !.loading = FALSE],
        Idle, fetch, data, "error", m, "", 0)

\* the accepted text is not remembered
Finish_NoPush(s, next, t, fetch, data, from) ==
    IF ~next.some THEN Catch(s, MsgNoNew, t, fetch, data)
    ELSE Res([s EXCEPT !.quote = next, !.loading = FALSE],
             Idle, fetch, data, "ok", "", from, 0)

\* lines 283-289, 300-302: accept next, or throw when there is none
Finish(s, next, t, fetch, data, from) ==
    IF ~next.some THEN Catch(s, MsgNoNew, t, fetch, data)
    ELSE Res([s EXCEPT !.quote = next,
                       !.recent = PushRecent(s.recent, next.q),
                       !.loading = FALSE],
             Idle, fetch, data, "ok", "", from, 0)

\* lines 278-279 after the list is known
AfterAll(s, ld, list, t, fetch, data) ==
    {Finish(s, IF pick.some THEN pick ELSE ld.next, t, fetch, data,
            IF pick.some THEN "list" ELSE "net") :
        pick \in pickDistinctRandom(list, ld.recentSet)}

\* the stored list is not looked at
FetchAllStart_NoCache(s, ld, t, fetch, data) ==
    {Res(s, [ld EXCEPT !.pc = "all", !.idx = 1, !.lastErr = "", !.issuedAt = t],
         fetch, data, "", "", "", 1)}

\* lines 101-111: the cached list is returned, or the first request goes out
FetchAllStart(s, ld, t, fetch, data) ==
    LET raw == s.allQuotes[ld.tKey]
        arr == JSONparse(raw)
    IN IF raw.has /\ arr.ok /\ arr.data.arr /\ Len(arr.data.items) > 0
       THEN AfterAll(s, ld, arr.data.items, t, fetch, data)
       ELSE {Res(s, [ld EXCEPT !.pc = "all", !.idx = 1, !.lastErr = "", !.issuedAt = t],
                 fetch, data, "", "", "", 1)}

\* the list is consulted whatever next is
Fallback_AlwaysList(s, ld, t, fetch, data) == FetchAllStart(s, ld, t, fetch, data)

\* line 276: fall back to the list, or go on with next
Fallback(s, ld, t, fetch, data) ==
    IF ~ld.next.some \/ (ld.cquote.some /\ ld.next.q = ld.cquote.q)
    THEN FetchAllStart(s, ld, t, fetch, data)
    ELSE {Finish(s, ld.next, t, fetch, data, "net")}

\* lines 249-273: what load does with the data fetchZen returned
AfterZen(s, ld, data, t) ==
    IF ld.which = "today" THEN
        IF ~ValidShape(data) THEN {Catch(s, MsgUnexpected, t, "return", data)}
        ELSE LET next == FirstQuote(data)
             IN {Finish([s EXCEPT !.todayCache = WriteCache(@, ld.tKey, next)],
                        next, t, "return", data, "net")}
    ELSE IF ld.pc = "zen0" THEN
        IF ~ValidShape(data) THEN {Catch(s, MsgUnexpected, t, "return", data)}
        ELSE LET next == FirstQuote(data)
                 recentSet == (IF ld.cquote.some THEN {ld.cquote.q} ELSE {}) \cup Range(s.recent)
                 ld1 == [ld EXCEPT !.next = next, !.recentSet = recentSet]
             IN IF next.q \in recentSet
                THEN {Res(s, [ld1 EXCEPT !.pc = "zen1", !.idx = 1, !.lastErr = "", !.issuedAt = t],
                          "return", data, "", "", "", 1)}
                ELSE Fallback(s, ld1, t, "return", data)
    ELSE
        LET next == IF ValidShape(data)
                    THEN (IF FirstQuote(data).q \notin ld.recentSet THEN FirstQuote(data) ELSE Null)
                    ELSE ld.next
        IN Fallback(s, [ld EXCEPT !.next = next], t, "return", data)

\* lines 87-95 and 114-127: a pending request settles with resp at time t
OnSettle(s, ld, resp, t) ==
    LET cands == CandidatesOf(ld)
        r == tryUrl(resp, cands[ld.idx].mode)
        err == IF r.ok THEN ld.lastErr ELSE r.err
        again == [ld EXCEPT !.idx = @ + 1, !.lastErr = err, !.issuedAt = t]
    IN IF ld.pc = "all" THEN
          LET step == fetchAllLoop(r, ld.idx, Len(cands))
              cleaned == Cleaned(r.data.items)
          IN IF step = "return"
             THEN AfterAll([s EXCEPT !.allQuotes[ld.tKey] = StringifyList(cleaned)],
                           ld, cleaned, t, "return", r.data)
             ELSE IF step = "continue" THEN {Res(s, again, "continue", r.data, "", "", "", 1)}
             ELSE {Catch(s, IF err # "" THEN err ELSE MsgListFailed, t, "throw", r.data)}
       ELSE
          LET step == fetchZenLoop(r, ld.idx, Len(cands))
          IN IF step = "return" THEN AfterZen(s, ld, r.data, t)
             ELSE IF step = "continue" THEN {Res(s, again, "continue", r.data, "", "", "", 1)}
             ELSE {Catch(s, IF err # "" THEN err ELSE MsgAllFailed, t, "throw", r.data)}

NoCall == [op |-> "none"]

\* ------------------------------------------------------------------- Init
\* The state after the first render: useState initial values, refs at their
\* initial value, empty localStorage, nothing in flight.
Init ==
    /\ isLocal \in BOOLEAN
    /\ API_BASE = ""
    /\ mounted = FALSE
    /\ now = StartTime
    /\ lastCall = 0
    /\ recent = <<>>
    /\ quote = Null
    /\ loading = TRUE
    /\ error = ""
    /\ todayCache = [k \in DayKeys |-> NoStr]
    /\ allQuotes = [k \in DayKeys |-> NoStr]
    /\ loads = [k \in Slots |-> Idle]
    /\ obs = NoObs
    /\ rlAt = -1
    /\ lastPass = [w \in Kinds |-> -1]
    /\ lastTry = [w \in Kinds |-> -1]
    /\ started = 0
    /\ ringLog = <<>>
    /\ latest = 0
    /\ favorites = <<>>
    /\ storedDays = NoStr
    /\ daysVisited = 0
    /\ call = NoCall

\* ------------------------------------------------------------------- load
FreeSlots == {k \in Slots : loads[k].pc = "idle"}
Pending == {k \in Slots : loads[k].pc # "idle"}
FirstFree == CHOOSE k \in FreeSlots : \A j \in FreeSlots : k <= j

SetShared(s) ==
    /\ lastCall' = s.lastCall
    /\ recent' = s.recent
    /\ quote' = s.quote
    /\ loading' = s.loading
    /\ error' = s.error
    /\ todayCache' = s.todayCache
    /\ allQuotes' = s.allQuotes

\* a rejected call still records its time
DroppedCall_Reset ==
    /\ lastCall' = now
    /\ UNCHANGED <<recent, quote, loading, error, todayCache, allQuotes, loads>>

\* line 230: what a call rejected by the gate does
DroppedCall == UNCHANGED progVars

\* lines 231-250 / 256: a call that passed the gate, up to its first pending request
PassedCall(which) ==
    /\ lastCall' = now
    /\ loading' = TRUE
    /\ error' = ""
    /\ quote' = IF which = "today" /\ todayCache[DayKey].has
                THEN ParseCachedQuote(todayCache[DayKey], quote)
                ELSE quote
    /\ loads' = [loads EXCEPT ![FirstFree] =
                    [pc |-> "zen0", which |-> which, idx |-> 1, lastErr |-> "",
                     tKey |-> DayKey, cquote |-> quote, next |-> Null,
                     recentSet |-> {}, issuedAt |-> now]]
    /\ UNCHANGED <<recent, todayCache, allQuotes>>

\* lines 227-303: load(which) up to its first pending request
load(which) ==
    /\ lastTry' = [lastTry EXCEPT ![which] = now]
    /\ UNCHANGED <<now, isLocal, API_BASE, ringLog>>
    /\ UNCHANGED sideVars
    /\ IF GateDrops(now, lastCall, which)
       THEN /\ DroppedCall
            /\ UNCHANGED <<lastPass, rlAt, started, latest>>
            /\ obs' = [NoObs EXCEPT !.act = "load", !.which = which, !.gate = "dropped"]
       ELSE /\ started < MaxLoads
            /\ started' = started + 1
            /\ latest' = FirstFree
            /\ PassedCall(which)
            /\ lastPass' = [lastPass EXCEPT ![which] = now]
            /\ rlAt' = IF rlAt # -1 /\ now >= rlAt + BACKOFF_429_MS THEN -1 ELSE rlAt
            /\ obs' = [NoObs EXCEPT !.act = "load", !.which = which, !.gate = "passed",
                                    !.issued = 1, !.slot = FirstFree]

\* line 224: the mount effect
Mount ==
    /\ ~mounted
    /\ mounted' = TRUE
    /\ load("today")

\* line 331: the drawer's Today's Quote button
MenuToday ==
    /\ mounted
    /\ UNCHANGED mounted
    /\ load("today")

\* lines 385-390: the main buttons, rendered when !loading && !error && quote
MainToday ==
    /\ mounted /\ ~loading /\ error = "" /\ quote.some
    /\ UNCHANGED mounted
    /\ load("today")

MainRandom ==
    /\ mounted /\ ~loading /\ error = "" /\ quote.some
    /\ UNCHANGED mounted
    /\ load("random")

\* lines 376-379: Retry, rendered when !loading && error
Retry ==
    /\ mounted /\ ~loading /\ error # ""
    /\ UNCHANGED mounted
    /\ load("today")

\* ------------------------------------------------------- request settles
Is429(resp) == resp.kind = "http" /\ resp.status = 429

Apply(k, resp) ==
    \E r \in OnSettle(Shared, loads[k], resp, now) :
        /\ SetShared(r.s)
        /\ loads' = [loads EXCEPT ![k] = r.ld]
        /\ obs' = [NoObs EXCEPT !.act = "settle", !.which = loads[k].which, !.slot = k,
                                !.phase = loads[k].pc, !.idx = loads[k].idx,
                                !.resp = resp, !.fetch = r.fetch, !.data = r.data,
                                !.end = r.end, !.msg = r.msg, !.from = r.from,
                                !.issued = r.issued]
        /\ rlAt' = IF r.end = "error" /\ Includes429(r.msg) THEN now ELSE rlAt
        /\ ringLog' = IF r.s.recent # recent THEN Append(ringLog, r.s.recent[1]) ELSE ringLog
        /\ UNCHANGED <<lastPass, lastTry, started, now, isLocal, API_BASE, mounted, latest>>
        /\ UNCHANGED sideVars

\* lines 39, 47-52: the response arrives before the timer fires
Respond ==
    \E k \in Pending :
        /\ now - loads[k].issuedAt < TIMEOUT_MS
        /\ \E resp \in Responses(CandidatesOf(loads[k])[loads[k].idx].mode, PathOf(loads[k])) :
               Apply(k, resp)

\* lines 36-37: the timer fires and aborts the request
TimerAbort ==
    \E k \in Pending :
        /\ now - loads[k].issuedAt >= TIMEOUT_MS
        /\ Apply(k, Aborted)

\* lines 39-41, 49-52: fetch resolved with the response's status before the timer
\* fired, so the finally block cleared the timer; the body that r.json() reads
\* is complete only after the bound
LateBody ==
    \E k \in Pending :
        /\ now - loads[k].issuedAt >= TIMEOUT_MS
        /\ \E b \in BodiesFor(CandidatesOf(loads[k])[loads[k].idx].mode, PathOf(loads[k])) :
               Apply(k, Http(200, b))

\* ------------------------------------------------------------------ clock
\* The first clock reading at or after t.
FirstAtOrAfter(t) ==
    IF \E x \in Times : x >= t
    THEN CHOOSE x \in Times : x >= t /\ \A y \in Times : y >= t => x <= y
    ELSE t

\* A history timestamp h as remembered at time t.
Forget(h, t, window) == IF h # -1 /\ t - h >= window THEN -1 ELSE h

Tick ==
    \E t \in Times :
        /\ t > now
        /\ \A k \in Pending : t <= FirstAtOrAfter(loads[k].issuedAt + TIMEOUT_MS)
        /\ now' = t
        /\ obs' = [NoObs EXCEPT !.act = "tick"]
        /\ lastPass' = [w \in Kinds |-> Forget(lastPass[w], t, THROTTLE_MS)]
        /\ lastTry' = [w \in Kinds |-> Forget(lastTry[w], t, minGap(w))]
        /\ UNCHANGED <<isLocal, API_BASE, mounted, rlAt, started, ringLog, latest>>
        /\ UNCHANGED sideVars
        /\ UNCHANGED progVars

Next ==
    \/ Mount
    \/ MenuToday
    \/ MainToday
    \/ MainRandom
    \/ Retry
    \/ Respond
    \/ TimerAbort
    \/ LateBody
    \/ Tick

Spec == Init /\ [][Next]_vars

\* lines 35-43: the request of the load in slot k settles, by a response or by
\* the timer
Settle(k) ==
    /\ k \in Pending
    /\ \/ /\ now - loads[k].issuedAt < TIMEOUT_MS
          /\ \E resp \in Responses(CandidatesOf(loads[k])[loads[k].idx].mode, PathOf(loads[k])) :
                 Apply(k, resp)
       \/ /\ now - loads[k].issuedAt >= TIMEOUT_MS
          /\ \/ Apply(k, Aborted)
             \/ \E b \in BodiesFor(CandidatesOf(loads[k])[loads[k].idx].mode, PathOf(loads[k])) :
                    Apply(k, Http(200, b))

\* Every request that is waiting is answered or aborted in the end.
LiveSpec == Spec /\ \A k \in Slots : WF_vars(Settle(k))

\* ------------------------------------------------- a later session of a day
\* The component mounts with the localStorage an earlier session of the same
\* day has left: the today quote, and the day's list or an empty list (the
\* empty list is examined in the development configuration only).
WarmInit ==
    /\ isLocal \in BOOLEAN
    /\ API_BASE = ""
    /\ mounted = FALSE
    /\ now = StartTime
    /\ lastCall = 0
    /\ recent = <<>>
    /\ quote = Null
    /\ loading = TRUE
    /\ error = ""
    /\ todayCache = [k \in DayKeys |->
                         IF k = DayKey THEN StringifyQuote(Quote("t1", "a1")) ELSE NoStr]
    /\ allQuotes \in {[k \in DayKeys |-> IF k = DayKey THEN StringifyList(list) ELSE NoStr] :
                         list \in {<<E1, E2>>} \cup (IF isLocal THEN {<<>>} ELSE {})}
    /\ loads = [k \in Slots |-> Idle]
    /\ obs = NoObs
    /\ rlAt = -1
    /\ lastPass = [w \in Kinds |-> -1]
    /\ lastTry = [w \in Kinds |-> -1]
    /\ started = 0
    /\ ringLog = <<>>
    /\ latest = 0
    /\ favorites = <<>>
    /\ storedDays = NoStr
    /\ daysVisited = 0
    /\ call = NoCall

WarmSpec == WarmInit /\ [][Next]_vars

\* -------------------------------------------------- the recent ring alone
\* Lines 286-289 taken by themselves: a session seen as the sequence of the
\* quotes its loads accept, whatever the way each load came to its quote.
\* Texts are numbered in the order in which they are first accepted.
TextNames == <<"t1", "t2", "t3", "t4", "t5", "t6", "t7", "t8",
               "t9", "t10", "t11", "t12", "t13", "t14", "t15">>

RingInit ==
    /\ Init
    /\ ~isLocal

Accept ==
    \E i \in DOMAIN TextNames :
        /\ started < MaxAccepts
        /\ i <= Cardinality(Range(ringLog)) + 1
        /\ quote' = Quote(TextNames[i], "a1")
        /\ recent' = PushRecent(recent, TextNames[i])
        /\ ringLog' = IF recent' # recent THEN Append(ringLog, TextNames[i]) ELSE ringLog
        /\ started' = started + 1
        /\ obs' = [NoObs EXCEPT !.act = "settle", !.which = "random", !.end = "ok",
                                !.from = "net"]
        /\ UNCHANGED <<isLocal, API_BASE, mounted, now, lastCall, loading, error,
                       todayCache, allQuotes, loads, rlAt, lastPass, lastTry, latest>>
        /\ UNCHANGED sideVars

RingNext == Accept

RingSpec == RingInit /\ [][RingNext]_vars

\* ------------------------------------------------ parts taken by themselves
\* The fetch layer at rest: nothing mounted, nothing in flight.
fetchRest == <<isLocal, API_BASE, mounted, now, lastCall, recent, loading, error,
               allQuotes, loads, obs, rlAt, lastPass, started, lastTry, ringLog, latest>>
FetchIdle ==
    /\ isLocal = FALSE
    /\ API_BASE = ""
    /\ mounted = FALSE
    /\ now = StartTime
    /\ lastCall = 0
    /\ recent = <<>>
    /\ loading = TRUE
    /\ error = ""
    /\ allQuotes = [k \in DayKeys |-> NoStr]
    /\ loads = [k \in Slots |-> Idle]
    /\ obs = NoObs
    /\ rlAt = -1
    /\ lastPass = [w \in Kinds |-> -1]
    /\ lastTry = [w \in Kinds |-> -1]
    /\ started = 0
    /\ ringLog = <<>>
    /\ latest = 0

\* the number of operations applied so far
Count(c) == IF c.op = "none" THEN 0 ELSE c.n

\* ---------------------------------- buildCandidates, tryUrl, the daily cache
Paths == {"api/today", "api/random", "api/quotes"}
Busts == {"", "?t=now"}
Bases == {"", "https://proxy.example"}
Modes == {"json", "allorigins-get"}
CacheQuotes == {Quote("t1", "a1"), Quote("t1", "a2"), Quote("t2", "a2")}

LibInit ==
    /\ FetchIdle
    /\ quote = Null
    /\ todayCache = [k \in DayKeys |-> NoStr]
    /\ favorites = <<>>
    /\ storedDays = NoStr
    /\ daysVisited = 0
    /\ call = NoCall

\* lines 56-76, for any configuration
CallBuildCandidates ==
    \E path \in Paths, bust \in Busts, local \in BOOLEAN, base \in Bases :
        /\ call' = [op |-> "buildCandidates", path |-> path, bust |-> bust,
                    local |-> local, base |-> base,
                    out |-> buildCandidates(path, bust, local, base)]
        /\ UNCHANGED <<fetchRest, quote, todayCache, favorites, storedDays, daysVisited>>

\* lines 46-53, for any response whatever the mode of the candidate
CallTryUrl ==
    \E mode \in Modes, path \in Paths :
        \E resp \in Responses("json", path) \cup Responses("allorigins-get", path) \cup {Aborted} :
            /\ call' = [op |-> "tryUrl", resp |-> resp, mode |-> mode,
                        out |-> tryUrl(resp, mode)]
            /\ UNCHANGED <<fetchRest, quote, todayCache, favorites, storedDays, daysVisited>>

\* line 253: the quote of a today load is cached under the day's key
WriteToday ==
    \E key \in DayKeys, qt \in CacheQuotes :
        /\ todayCache' = WriteCache(todayCache, key, qt)
        /\ call' = [op |-> "write", key |-> key, q |-> qt, before |-> todayCache]
        /\ UNCHANGED <<fetchRest, quote, favorites, storedDays, daysVisited>>

\* lines 240-244: the cached quote of the day is read and displayed
ReadToday ==
    \E key \in DayKeys :
        /\ todayCache[key].has
        /\ quote' = ParseCachedQuote(todayCache[key], quote)
        /\ call' = [op |-> "read", key |-> key]
        /\ UNCHANGED <<fetchRest, todayCache, favorites, storedDays, daysVisited>>

LibNext == CallBuildCandidates \/ CallTryUrl \/ WriteToday \/ ReadToday
LibSpec == LibInit /\ [][LibNext]_vars

\* ---------------------------------------------------------------- favorites
FAV_MAX == 200

\* n favorites an earlier session has stored
Stock(n) == [i \in 1..n |-> [q |-> "s" \o ToString(i), a |-> "a1"]]

\* lines 170-173
IsFavorite(favs, qt) ==
    qt.some /\ \E i \in DOMAIN favs : favs[i].q = qt.q /\ favs[i].a = qt.a

\* the author is not compared
Without_ByText(favs, q, a) == SelectSeq(favs, LAMBDA f : f.q # q)

\* lines 177 and 351: favorites.filter(f => !(f.q === q && f.a === a))
Without(favs, q, a) == SelectSeq(favs, LAMBDA f : ~(f.q = q /\ f.a = a))

\* the list grows without limit
AddFavorite_NoCap(favs, qt) == << [q |-> qt.q, a |-> qt.a] >> \o favs

\* line 179: [{ q, a }, ...favorites].slice(0, 200)
AddFavorite(favs, qt) ==
    LET grown == << [q |-> qt.q, a |-> qt.a] >> \o favs
    IN SubSeq(grown, 1, Min(Len(grown), FAV_MAX))

ShownQuotes == {Quote("t1", "a1"), Quote("t1", "a2"), Quote("t2", "a1")}

FavInit ==
    /\ FetchIdle
    /\ quote = Null
    /\ todayCache = [k \in DayKeys |-> NoStr]
    /\ favorites \in {<<>>, <<E1, E2>>, Stock(FAV_MAX - 1), Stock(FAV_MAX)}
    /\ storedDays = NoStr
    /\ daysVisited = 0
    /\ call = NoCall

\* line 286: a load displays a quote
ShowLoaded ==
    \E qt \in ShownQuotes :
        /\ Count(call) < MaxFavSteps
        /\ quote' = qt
        /\ call' = [op |-> "show", n |-> Count(call) + 1, added |-> FALSE]
        /\ UNCHANGED <<fetchRest, todayCache, favorites, storedDays, daysVisited>>

\* line 348: a favorite is clicked in the drawer
ShowFavorite ==
    \E i \in DOMAIN favorites \cap {1, Len(favorites)} :
        /\ Count(call) < MaxFavSteps
        /\ quote' = Quote(favorites[i].q, favorites[i].a)
        /\ call' = [op |-> "show", n |-> Count(call) + 1, added |-> FALSE]
        /\ UNCHANGED <<fetchRest, todayCache, favorites, storedDays, daysVisited>>

\* lines 174-181
toggleFavorite ==
    /\ Count(call) < MaxFavSteps
    /\ quote.some
    /\ favorites' = IF IsFavorite(favorites, quote)
                    THEN Without(favorites, quote.q, quote.a)
                    ELSE AddFavorite(favorites, quote)
    /\ call' = [op |-> "toggleFavorite", n |-> Count(call) + 1,
                added |-> ~IsFavorite(favorites, quote),
                twice |-> call.op = "toggleFavorite",
                prev |-> IF call.op = "toggleFavorite" THEN call.was ELSE <<>>,
                was |-> favorites]
    /\ UNCHANGED <<fetchRest, quote, todayCache, storedDays, daysVisited>>

\* line 351: Remove on an entry of the drawer
Remove ==
    \E i \in DOMAIN favorites \cap {1, 2, Len(favorites)} :
        /\ Count(call) < MaxFavSteps
        /\ favorites' = Without(favorites, favorites[i].q, favorites[i].a)
        /\ call' = [op |-> "remove", n |-> Count(call) + 1, added |-> FALSE]
        /\ UNCHANGED <<fetchRest, quote, todayCache, storedDays, daysVisited>>

FavNext == ShowLoaded \/ ShowFavorite \/ toggleFavorite \/ Remove
FavSpec == FavInit /\ [][FavNext]_vars

\* ------------------------------------------------------------- visited days
Days == {"2025-05-30", "2025-05-31", DayKey, NextDayKey}

\* What an earlier session, or anything else, may have left under LS.DAYS:
\* nothing, text that is not JSON, JSON that is not an array, or a list of
\* up to two different days.
StoredDaysInputs ==
    {NoStr, BadStr, StrOf(FALSE, <<>>), StrOf(TRUE, <<>>)}
        \cup {StrOf(TRUE, <<d>>) : d \in Days}
        \cup {StrOf(TRUE, <<p[1], p[2]>>) : p \in {x \in Days \X Days : x[1] # x[2]}}

\* lines 184-190: the initial value of daysVisited
InitialDays(raw) ==
    IF ~raw.has THEN 0
    ELSE IF ~raw.wf THEN 0
    ELSE IF raw.arr THEN Len(raw.items) ELSE 0

\* the day is appended whether or not the list holds it
MarkVisited_AlwaysAppend(raw, key, count) ==
    IF raw.has /\ ~raw.wf THEN [stored |-> StrOf(TRUE, <<key>>), count |-> 1]
    ELSE LET isArr == ~raw.has \/ raw.arr
             arr == IF raw.has THEN raw.items ELSE <<>>
         IN IF ~isArr THEN [stored |-> StrOf(TRUE, <<key>>), count |-> 1]
            ELSE [stored |-> StrOf(TRUE, Append(arr, key)), count |-> Len(arr) + 1]

\* lines 191-211: the mount effect; count is the value daysVisited has before
MarkVisited(raw, key, count) ==
    IF raw.has /\ ~raw.wf THEN [stored |-> StrOf(TRUE, <<key>>), count |-> 1]
    ELSE LET isArr == ~raw.has \/ raw.arr
             arr == IF raw.has THEN raw.items ELSE <<>>
         IN IF ~isArr THEN [stored |-> StrOf(TRUE, <<key>>), count |-> 1]
            ELSE IF key \notin Range(arr)
            THEN [stored |-> StrOf(TRUE, Append(arr, key)), count |-> Len(arr) + 1]
            ELSE [stored |-> raw, count |-> count]

DaysInit ==
    /\ FetchIdle
    /\ quote = Null
    /\ todayCache = [k \in DayKeys |-> NoStr]
    /\ favorites = <<>>
    /\ storedDays \in StoredDaysInputs
    /\ daysVisited = 0
    /\ call = NoCall

\* The app starts on day key: the first render and the mount effect.
Start ==
    \E key \in Days :
        LET after == MarkVisited(storedDays, key, InitialDays(storedDays))
        IN /\ storedDays' = after.stored
           /\ daysVisited' = after.count
           /\ call' = [op |-> "start", day |-> key,
                       again |-> (call.op = "start" /\ call.day = key)]
           /\ UNCHANGED <<fetchRest, quote, todayCache, favorites>>

DaysNext == Start
DaysSpec == DaysInit /\ [][DaysNext]_vars

\* ------------------------------------------- the revision in src/src/App.tsx
\* In this revision lastCall is a variable of the component function: every
\* render makes a new one, initially 0, and the handlers of a render and the
\* load calls they start share the one of their render. Here lastCall is the
\* variable of the latest render, call.own holds the slots of the loads in
\* flight that were started from the latest render, and call.menuOpen is the
\* useState of the drawer.
RevPaths(which) == IF which = "random" THEN "api/random" ELSE "api/today"

\* lines 42-53: the candidates of fetchZen(which), all read as JSON text
RevCandidates(which, local, base) ==
    IF local THEN << Cand("vite-dev", RevPaths(which), "", "json") >>
    ELSE (IF base # "" THEN << Cand("api-base", RevPaths(which), "", "json") >> ELSE << >>)
         \o << Cand("allorigins-raw", RevPaths(which), "", "json"),
               Cand("isomorphic-git", RevPaths(which), "", "json") >>

RevState(menuOpen, own) == [op |-> "rev", menuOpen |-> menuOpen, own |-> own]

RevInit ==
    /\ isLocal \in BOOLEAN
    /\ API_BASE = ""
    /\ mounted = FALSE
    /\ now = StartTime
    /\ lastCall = 0
    /\ recent = <<>>
    /\ quote = Null
    /\ loading = TRUE
    /\ error = ""
    /\ todayCache \in {[k \in DayKeys |-> NoStr],
                       [k \in DayKeys |-> IF k = DayKey THEN StringifyQuote(Quote("t1", "a1"))
                                          ELSE NoStr]}
    /\ allQuotes = [k \in DayKeys |-> NoStr]
    /\ loads = [k \in Slots |-> Idle]
    /\ obs = NoObs
    /\ rlAt = -1
    /\ lastPass = [w \in Kinds |-> -1]
    /\ lastTry = [w \in Kinds |-> -1]
    /\ started = 0
    /\ ringLog = <<>>
    /\ latest = 0
    /\ favorites = <<>>
    /\ storedDays = NoStr
    /\ daysVisited = 0
    /\ call = RevState(FALSE, {})

\* line 150: the gate, with the one gap of this revision
RevGateDrops(t, last) == t - last < THROTTLE_MS

\* lines 149-167: load(which) called from the latest render, up to its first
\* pending request; other is whether the handler or the effects around the call
\* change some other state of the component. A change of state makes a new
\* render, whose lastCall is 0.
RevLoad(which, other, menuOpen) ==
    /\ UNCHANGED <<now, isLocal, API_BASE, ringLog, lastTry, latest, recent, allQuotes,
                   todayCache, favorites, storedDays, daysVisited>>
    /\ IF RevGateDrops(now, lastCall)
       THEN /\ UNCHANGED <<quote, loading, error, loads, lastPass, rlAt, started>>
            /\ lastCall' = IF other THEN 0 ELSE lastCall
            /\ call' = RevState(menuOpen, IF other THEN {} ELSE call.own)
            /\ obs' = [NoObs EXCEPT !.act = "load", !.which = which, !.gate = "dropped"]
       ELSE LET shown == IF which = "today" /\ todayCache[DayKey].has
                         THEN ParseCachedQuote(todayCache[DayKey], quote)
                         ELSE quote
                rerender == other \/ ~loading \/ error # "" \/ shown # quote
            IN /\ started < MaxLoads
               /\ started' = started + 1
               /\ loading' = TRUE
               /\ error' = ""
               /\ quote' = shown
               /\ loads' = [loads EXCEPT ![FirstFree] =
                               [pc |-> "zen0", which |-> which, idx |-> 1, lastErr |-> "",
                                tKey |-> DayKey, cquote |-> quote, next |-> Null,
                                recentSet |-> {}, issuedAt |-> now]]
               /\ lastCall' = IF rerender THEN 0 ELSE now
               /\ call' = RevState(menuOpen, IF rerender THEN {} ELSE call.own \cup {FirstFree})
               /\ lastPass' = [lastPass EXCEPT ![which] = now]
               /\ rlAt' = IF rlAt # -1 /\ now >= rlAt + BACKOFF_429_MS THEN -1 ELSE rlAt
               /\ obs' = [NoObs EXCEPT !.act = "load", !.which = which, !.gate = "passed",
                                       !.issued = 1, !.slot = FirstFree]

\* line 146: the mount effect; the visited-days effect before it (lines 116-133)
\* sets state on the first start of a day
RevMount ==
    /\ ~mounted
    /\ mounted' = TRUE
    /\ \E daysChanged \in BOOLEAN : RevLoad("today", daysChanged, FALSE)

\* line 195: the menu button opens the drawer
RevOpenMenu ==
    /\ mounted /\ ~call.menuOpen
    /\ call' = RevState(TRUE, {})
    /\ lastCall' = 0
    /\ obs' = [NoObs EXCEPT !.act = "menu"]
    /\ UNCHANGED <<mounted, now, isLocal, API_BASE, recent, quote, loading, error, todayCache,
                   allQuotes, loads, rlAt, lastPass, started, lastTry, ringLog, latest,
                   favorites, storedDays, daysVisited>>

\* lines 216-217: the drawer's Today's Quote button closes the drawer and calls load
RevMenuToday ==
    /\ mounted /\ call.menuOpen
    /\ UNCHANGED mounted
    /\ RevLoad("today", TRUE, FALSE)

\* lines 272-273: the main buttons, rendered when !loading && !error && quote
RevMainToday ==
    /\ mounted /\ ~loading /\ error = "" /\ quote.some
    /\ UNCHANGED mounted
    /\ RevLoad("today", FALSE, call.menuOpen)

RevMainRandom ==
    /\ mounted /\ ~loading /\ error = "" /\ quote.some
    /\ UNCHANGED mounted
    /\ RevLoad("random", FALSE, call.menuOpen)

\* line 262: Retry, rendered when !loading && error
RevRetry ==
    /\ mounted /\ ~loading /\ error # ""
    /\ UNCHANGED mounted
    /\ RevLoad("today", FALSE, call.menuOpen)

\* lines 55-65 and 169-187: the pending request of the load in slot k settles
\* with resp; the load goes on to its next candidate or ends
RevApply(k, resp) ==
    LET ld == loads[k]
        cands == RevCandidates(ld.which, isLocal, API_BASE)
        r == tryUrl(resp, "json")
        step == fetchZenLoop(r, ld.idx, Len(cands))
        good == step = "return" /\ ValidShape(r.data)
        m == IF step = "return" THEN MsgUnexpected ELSE r.err
        shown == IF good THEN FirstQuote(r.data) ELSE quote
        shownErr == IF good THEN error ELSE Classify(m)
        rerender == loading \/ shown # quote \/ shownErr # error
        mine == IF k \in call.own /\ ~good THEN BackoffLastCall(m, now, lastCall) ELSE lastCall
    IN /\ UNCHANGED <<now, isLocal, API_BASE, mounted, recent, allQuotes, lastPass, lastTry,
                      started, ringLog, latest, favorites, storedDays, daysVisited>>
       /\ IF step = "continue"
          THEN /\ loads' = [loads EXCEPT ![k] = [ld EXCEPT !.idx = @ + 1, !.lastErr = r.err,
                                                           !.issuedAt = now]]
               /\ obs' = [NoObs EXCEPT !.act = "settle", !.which = ld.which, !.slot = k,
                                       !.phase = ld.pc, !.idx = ld.idx, !.resp = resp,
                                       !.fetch = "continue", !.issued = 1]
               /\ UNCHANGED <<lastCall, quote, loading, error, todayCache, rlAt, call>>
          ELSE /\ loads' = [loads EXCEPT ![k] = Idle]
               /\ quote' = shown
               /\ error' = shownErr
               /\ loading' = FALSE
               /\ todayCache' = IF good /\ ld.which = "today"
                                THEN WriteCache(todayCache, ld.tKey, shown) ELSE todayCache
               /\ lastCall' = IF rerender THEN 0 ELSE mine
               /\ call' = RevState(call.menuOpen, IF rerender THEN {} ELSE call.own \ {k})
               /\ rlAt' = IF ~good /\ Includes429(m) THEN now ELSE rlAt
               /\ obs' = [NoObs EXCEPT !.act = "settle", !.which = ld.which, !.slot = k,
                                       !.phase = ld.pc, !.idx = ld.idx, !.resp = resp,
                                       !.fetch = step,
                                       !.end = IF good THEN "ok" ELSE "error",
                                       !.msg = IF good THEN "" ELSE m]

\* lines 32-40: the response arrives before the timer fires
RevRespond ==
    \E k \in Pending :
        /\ now - loads[k].issuedAt < TIMEOUT_MS
        /\ \E resp \in Responses("json", RevPaths(loads[k].which)) : RevApply(k, resp)

\* lines 33-34: the timer fires and aborts the request
RevTimerAbort ==
    \E k \in Pending :
        /\ now - loads[k].issuedAt >= TIMEOUT_MS
        /\ RevApply(k, Aborted)

RevNext ==
    \/ RevMount
    \/ RevOpenMenu
    \/ RevMenuToday
    \/ RevMainToday
    \/ RevMainRandom
    \/ RevRetry
    \/ RevRespond
    \/ RevTimerAbort
    \/ Tick

RevSpec == RevInit /\ [][RevNext]_vars

\* ================================================================ claims
NumCands == Len(buildCandidates("api/today", "", isLocal, API_BASE))
ModeAt(i) == buildCandidates("api/today", "", isLocal, API_BASE)[i].mode
Settled == obs.act = "settle"
InZen == obs.phase \in {"zen0", "zen1"}
Called == obs.act = "load"
\* the load whose request settled now waits for the next candidate of the same fetch
NextPending == loads[obs.slot].pc = obs.phase /\ loads[obs.slot].idx = obs.idx + 1
NonEmpty(qt) == qt.some /\ qt.q # "" /\ qt.a # ""
RateLimitedEnd == error = ErrRateLimited /\ lastCall = now + BACKOFF_429_MS

\* C1: fetchZen tries its candidates in list order, one after the failure of the
\* other; the first candidate that succeeds ends the fetch, which returns exactly
\* what tryUrl gives for that candidate's response, and no later candidate of the
\* fetch is requested.
C1_FirstSuccessWins ==
    /\ (Called /\ obs.gate = "passed") => loads[obs.slot].idx = 1
    /\ (Settled /\ InZen) =>
          LET r == tryUrl(obs.resp, ModeAt(obs.idx))
          IN /\ r.ok => /\ obs.fetch = "return"
                        /\ obs.data = r.data
                        /\ loads[obs.slot].pc # obs.phase
             /\ (~r.ok /\ obs.idx < NumCands) => (NextPending /\ obs.issued = 1)
             /\ (~r.ok /\ obs.idx = NumCands) => obs.fetch = "throw"

C1_Witness ==
    /\ Settled /\ InZen
    /\ obs.idx = 3
    /\ obs.fetch = "return"
    /\ obs.end = "ok"

C4_BackoffBlocks ==
    (Called /\ rlAt # -1 /\ now < rlAt + BACKOFF_429_MS) =>
        (obs.gate = "dropped" /\ obs.issued = 0)

C4_Witness ==
    /\ Called /\ obs.gate = "dropped"
    /\ rlAt # -1
    /\ now > rlAt /\ now < rlAt + BACKOFF_429_MS

\* C5 (as claimed): once the deadline rlAt + 12000 is reached, a load call passes
\* the gate.
C5_GateOpensAtDeadline ==
    (Called /\ rlAt # -1 /\ now >= rlAt + BACKOFF_429_MS) => obs.gate = "passed"

\* C6 (as claimed): a load call made less than its kind's minimum gap after the
\* previous call of the same kind is rejected.
C6_CloseToPreviousCallDrops ==
    [][(/\ obs'.act = "load"
        /\ lastTry[obs'.which] # -1
        /\ now - lastTry[obs'.which] < minGap(obs'.which))
       => obs'.gate = "dropped"]_vars

\* C6 (amended): a load call made less than its kind's minimum gap after a call
\* of the same kind that passed the gate is rejected and sends no request.
C6_CloseToPassedCallDrops ==
    [][(/\ obs'.act = "load"
        /\ lastPass[obs'.which] # -1
        /\ now - lastPass[obs'.which] < minGap(obs'.which))
       => (obs'.gate = "dropped" /\ obs'.issued = 0)]_vars

C6_Witness ==
    /\ Called /\ obs.gate = "dropped" /\ obs.which = "today"
    /\ lastPass["today"] # -1
    /\ now > lastPass["today"] /\ now - lastPass["today"] < THROTTLE_MS

\* C7: a load call rejected by the gate changes nothing: lastCall, the recent
\* ring, quote, loading, error, the stored entries and the loads in flight are as
\* before, and no request is sent.
C7_DroppedCallIsNoOp ==
    [][(obs'.act = "load" /\ obs'.gate = "dropped")
       => (UNCHANGED progVars /\ obs'.issued = 0)]_vars

C7_Witness ==
    /\ Called /\ obs.gate = "dropped"
    /\ Pending # {} /\ loading

ClaimedGap(which) == IF which = "random" THEN 450 ELSE 3500

C9_WrongShapeTriesNext ==
    (/\ Settled /\ InZen
     /\ obs.idx < NumCands
     /\ tryUrl(obs.resp, ModeAt(obs.idx)).ok
     /\ ~ValidShape(tryUrl(obs.resp, ModeAt(obs.idx)).data))
    => NextPending

\* C10: a quote accepted from a network response has non-empty text and author
\* and is the first element of the data a successful candidate returned (of this
\* fetch, or of the first fetch when the second one gave nothing usable); and the
\* displayed quote is always null or has both fields non-empty.
C10_AcceptedQuoteWellFormed ==
    /\ [][(obs'.act = "settle" /\ obs'.end = "ok" /\ obs'.from = "net")
          => (/\ NonEmpty(quote')
              /\ quote' = IF ValidShape(obs'.data) THEN FirstQuote(obs'.data)
                          ELSE loads[obs'.slot].next)]_vars
    /\ [](/\ quote = Null \/ NonEmpty(quote)
          /\ \A k \in Slots : loads[k].next = Null \/ NonEmpty(loads[k].next)
          /\ (Settled /\ obs.phase = "zen0" /\ loads[obs.slot].pc = "zen1")
                => (ValidShape(obs.data) /\ loads[obs.slot].next = FirstQuote(obs.data)))

C10_Witness ==
    /\ Settled /\ obs.end = "ok" /\ obs.from = "net"
    /\ obs.which = "random"
    /\ quote = Quote("t2", "a2")

\* ---------------------------------------------------------------- C11..C20
\* the load record, before the step, of the load whose request settled in the step
Before == loads[obs'.slot]
SettledNow == obs'.act = "settle"
\* the quote a stored today entry gives back when it is read (line 243)
StoredToday(cache) == ParseCachedQuote(cache[DayKey], Null)

\* C11: the today entry changes only in the step in which a today load ends
\* successfully with data of the valid shape, and then reads back as exactly the
\* quote that load accepted; a step in which a load ends in an error, and every
\* step of a random load, leaves the entry as it was.
C11_TodayCacheOnlyOnSuccess ==
    [][/\ (todayCache' # todayCache) =>
              (/\ SettledNow /\ obs'.which = "today" /\ obs'.end = "ok"
               /\ ValidShape(obs'.data))
       /\ (SettledNow /\ obs'.which = "today" /\ obs'.end = "ok") =>
              (/\ quote' = FirstQuote(obs'.data)
               /\ todayCache'[DayKey].has
               /\ StoredToday(todayCache') = quote')
       /\ (SettledNow /\ obs'.end = "error") => UNCHANGED todayCache
       /\ (SettledNow /\ obs'.which = "random") => UNCHANGED todayCache]_vars

C11_Witness ==
    /\ Settled /\ obs.which = "today" /\ obs.end = "error"
    /\ todayCache[DayKey].has
    /\ StoredToday(todayCache) = Quote("t1", "a1")

\* C12 (as claimed): when the second fetch of a random load gives no distinct
\* quote (it throws, or returns data of the wrong shape, or returns a repeat) the
\* load goes on to the full list: it reads the stored list or requests it.
C12_SecondFetchFailureFallsBack ==
    [][(/\ SettledNow /\ obs'.phase = "zen1"
        /\ obs'.fetch \in {"return", "throw"}
        /\ ~(/\ obs'.fetch = "return"
             /\ ValidShape(obs'.data)
             /\ FirstQuote(obs'.data).q \notin Before.recentSet))
       => (loads'[obs'.slot].pc = "all" \/ obs'.from = "list")]_vars

\* C13 (as claimed): a random load ends in an error only in its full-list fetch.
C13_RandomFailsOnlyOnList ==
    (Settled /\ obs.which = "random" /\ obs.end = "error") => obs.phase = "all"

\* The two ways a random load comes to the full list after the network gave the
\* current quote twice: its list request settles while next is null and the
\* current quote is the only repeat there is (ViaRequest), or its second fetch
\* returns the current quote again and storage holds a list that is not empty
\* (ViaStore).
BothCurrentViaRequest ==
    /\ SettledNow /\ obs'.phase = "all"
    /\ Before.next = Null
    /\ Before.cquote.some /\ Before.recentSet = {Before.cquote.q}
BothCurrentViaStore ==
    /\ SettledNow /\ obs'.phase = "zen1" /\ obs'.fetch = "return"
    /\ Before.cquote.some
    /\ Before.next.some /\ Before.next.q = Before.cquote.q
    /\ ValidShape(obs'.data) /\ FirstQuote(obs'.data).q = Before.cquote.q
    /\ allQuotes[DayKey].has /\ allQuotes[DayKey].arr
    /\ Len(allQuotes[DayKey].items) > 0
ListFetched == Cleaned(obs'.data.items)
ListStored == JSONparse(allQuotes[DayKey]).data.items
NoFreshIn(list, recentSet) == \A i \in DOMAIN list : list[i].q \in recentSet
IsOneOf(qt, list) == \E i \in DOMAIN list : qt = Quote(list[i].q, list[i].a)
PhaseRank(pc) == IF pc = "zen0" THEN 1 ELSE IF pc = "zen1" THEN 2 ELSE IF pc = "all" THEN 3 ELSE 4

\* C14 (as claimed): a random load for which the network returned the current
\* quote twice ends with a quote whose text differs from the current quote's,
\* unless no quote of the day's list is fresh.
C14_DistinctUnlessListExhausted ==
    [][/\ (BothCurrentViaRequest /\ obs'.fetch = "return" /\ obs'.end = "ok") =>
              (quote'.q # Before.cquote.q \/ NoFreshIn(ListFetched, Before.recentSet))
       /\ (BothCurrentViaStore /\ obs'.end = "ok") =>
              (quote'.q # Before.cquote.q \/ NoFreshIn(ListStored, Before.recentSet))]_vars

\* C14 (amended): such a load always comes to an end: each settled request moves
\* it to the next candidate, the next fetch, or its end. It ends in an error when
\* the list cannot be obtained (every candidate failed) or holds no usable quote;
\* otherwise it ends with a quote drawn from the list, the current quote
\* included: a quote that is equal to the current one is returned only if the
\* list holds it.
C14_EndsWithAQuoteOfTheList ==
    [][/\ SettledNow =>
              LET after == loads'[obs'.slot]
              IN \/ after.pc = "idle" /\ obs'.end \in {"ok", "error"}
                 \/ /\ after.pc = Before.pc /\ after.idx = Before.idx + 1
                    /\ after.idx <= Len(CandidatesOf(Before)) /\ obs'.end = ""
                 \/ /\ PhaseRank(after.pc) > PhaseRank(Before.pc) /\ after.idx = 1
                    /\ obs'.end = ""
       /\ (BothCurrentViaRequest /\ obs'.fetch = "throw") => obs'.end = "error"
       /\ (BothCurrentViaRequest /\ obs'.fetch = "return") =>
              IF ListFetched = <<>>
              THEN obs'.end = "error" /\ obs'.msg = MsgNoNew /\ UNCHANGED quote
              ELSE /\ obs'.end = "ok" /\ obs'.from = "list"
                   /\ IsOneOf(quote', ListFetched)
                   /\ StrOf(TRUE, ListFetched) = allQuotes'[DayKey]
       /\ BothCurrentViaStore =>
              (obs'.end = "ok" /\ obs'.from = "list" /\ IsOneOf(quote', ListStored))]_vars

C14_Witness ==
    /\ Settled /\ obs.which = "random" /\ obs.phase = "all"
    /\ obs.end = "ok" /\ obs.from = "list"
    /\ quote = Quote("t1", "a1")
    /\ recent = <<"t1">>
    /\ allQuotes[DayKey].has

LastIn(x) ==
    CHOOSE i \in DOMAIN ringLog :
        ringLog[i] = x /\ \A j \in DOMAIN ringLog : ringLog[j] = x => j <= i
AcceptedNow == obs'.act = "settle" /\ obs'.end = "ok"

\* C16: the recent ring never holds more than 10 texts; and when a text is put
\* into a ring of 10, it goes to the front, the others keep their order, and the
\* text that leaves is the one that was put in before all the others of the ring.
C16_RingBoundedFifo ==
    /\ [](Len(recent) <= 10)
    /\ [][(recent' # recent /\ Len(recent) = 10) =>
              (/\ AcceptedNow
               /\ Len(recent') = 10
               /\ recent'[1] = quote'.q
               /\ \A i \in 1..9 : recent'[i + 1] = recent[i]
               /\ \A i \in 1..10 : recent'[i] # recent[10]
               /\ \A i \in 1..10 : LastIn(recent[10]) <= LastIn(recent[i]))]_vars

C16_Witness ==
    /\ Len(recent) = 10
    /\ Len(ringLog) = 12
    /\ recent[1] = "t1" /\ recent[2] = "t11"
    /\ recent[10] = "t3"

\* C17: no text is twice in the recent ring; accepting a quote whose text is in
\* the ring leaves the ring as it is, and accepting one whose text is not puts
\* that text in front.
C17_RingInsertIdempotent ==
    /\ [](\A i, j \in DOMAIN recent : recent[i] = recent[j] => i = j)
    /\ [][AcceptedNow =>
              IF \E i \in DOMAIN recent : recent[i] = quote'.q
              THEN recent' = recent
              ELSE recent'[1] = quote'.q]_vars

C17_Witness ==
    /\ Settled /\ obs.end = "ok"
    /\ Len(recent) = 10
    /\ quote.q = recent[10]
    /\ started > Len(ringLog) + 1

\* C18 (as claimed): at no time are two loads of the same kind in flight.
C18_OneInFlightPerKind ==
    \A w \in Kinds : Cardinality({k \in Pending : loads[k].which = w}) <= 1

\* C19 (as claimed): a request that settles 10000 ms or more after it was sent
\* counts as a failure of its candidate, and the step changes neither the
\* displayed quote, nor a stored entry, nor the recent ring.
C19_LateResponseIgnored ==
    [][(SettledNow /\ now - Before.issuedAt >= 10000) =>
           (/\ ~tryUrl(obs'.resp, CandidatesOf(Before)[Before.idx].mode).ok
            /\ UNCHANGED <<quote, recent, todayCache, allQuotes>>)]_vars

\* C20 (as claimed): right after a load has ended successfully the displayed
\* quote is the quote that load accepted and there is no error.
C20_SuccessShowsQuoteAndNoError ==
    (Settled /\ obs.end = "ok") =>
        (/\ error = ""
         /\ NonEmpty(quote)
         /\ (obs.from = "net" /\ ValidShape(obs.data)) => quote = FirstQuote(obs.data))

\* ---------------------------------------------------------------- C21..C30
\* what tryUrl makes of the response that settled, for the candidate it came from
TriedNow == tryUrl(obs'.resp, CandidatesOf(Before)[Before.idx].mode)
Exhausted == SettledNow /\ obs'.fetch = "throw"

C22_CachedTodayNeedsNoRequest ==
    (/\ Called /\ obs.gate = "passed" /\ obs.which = "today"
     /\ todayCache[DayKey].has)
    => (obs.issued = 0 /\ loads[obs.slot].pc = "idle")

\* C30 (as claimed): no step of a today load changes the recent ring.
C30_TodayLeavesRingAlone ==
    [][(obs'.which = "today" /\ obs'.act \in {"load", "settle"}) => UNCHANGED recent]_vars

\* C30 (amended): the ring changes only in the step in which a load, today or
\* random, ends successfully, and then by the text of the accepted quote put in
\* front; after every successful load the accepted text is in the ring. A call,
\* dropped or passed (the stored today quote shown at once included), and a load
\* that ends in an error leave the ring as it is.
C30_RingHoldsEveryAcceptedText ==
    [][/\ (recent' # recent) =>
              (/\ AcceptedNow
               /\ recent'[1] = quote'.q
               /\ \A i \in DOMAIN recent : i < 10 => recent'[i + 1] = recent[i])
       /\ AcceptedNow => \E i \in DOMAIN recent' : recent'[i] = quote'.q
       /\ (obs'.act = "load" \/ (SettledNow /\ obs'.end # "ok")) => UNCHANGED recent]_vars

C30_Witness ==
    /\ Settled /\ obs.which = "today" /\ obs.end = "ok"
    /\ recent = <<"t2", "t1">>
    /\ quote = Quote("t2", "a2")

\* C29 (as claimed): when a load ends that is not the one that passed the gate
\* last, the step changes neither the displayed quote, nor the error, nor the
\* loading flag.
C29_OnlyLatestLoadIsApplied ==
    [][(SettledNow /\ obs'.end # "" /\ obs'.slot # latest)
       => UNCHANGED <<quote, error, loading>>]_vars

\* a list that is not empty is stored for the day
StoredUsable ==
    /\ allQuotes[DayKey].has /\ allQuotes[DayKey].wf /\ allQuotes[DayKey].arr
    /\ Len(allQuotes[DayKey].items) > 0

\* C23: a load starts requesting the day's list only in a step before which no
\* list, or an empty one, is stored for the day; a fallback that finds a stored
\* list that is not empty ends in that step with a quote of the stored list,
\* sends no request and leaves the stored list as it is; the stored list is
\* written only when a candidate of the list fetch returns an array that is not
\* empty, and then holds the cleaned elements of that array.
C23_StoredListIsReused ==
    [][/\ \A k \in Slots :
              (loads'[k].pc = "all" /\ loads[k].pc # "all") => ~StoredUsable
       /\ (SettledNow /\ obs'.phase \in {"zen0", "zen1"} /\ obs'.from = "list") =>
              (/\ StoredUsable
               /\ obs'.end = "ok" /\ obs'.issued = 0
               /\ IsOneOf(quote', ListStored)
               /\ UNCHANGED allQuotes)
       /\ (SettledNow /\ obs'.phase = "zen1" /\ obs'.fetch = "return"
           /\ ValidShape(obs'.data)
           /\ FirstQuote(obs'.data).q \in Before.recentSet
           /\ StoredUsable) => obs'.from = "list"
       /\ (allQuotes' # allQuotes) =>
              (/\ SettledNow /\ obs'.phase = "all" /\ obs'.fetch = "return"
               /\ obs'.data.arr /\ Len(obs'.data.items) > 0)
       /\ (SettledNow /\ obs'.phase = "all" /\ obs'.fetch = "return") =>
              allQuotes'[DayKey] = StrOf(TRUE, ListFetched)]_vars

C23_Witness ==
    /\ Settled /\ obs.which = "random" /\ obs.phase = "zen1"
    /\ obs.end = "ok" /\ obs.from = "list" /\ obs.issued = 0
    /\ ~isLocal
    /\ StoredUsable
    /\ quote = Quote("t2", "a2")

\* ------------------------------------------------------------------- C24
RelaysOf(cands) == [i \in DOMAIN cands |-> cands[i].relay]
ModesOf(cands) == [i \in DOMAIN cands |-> cands[i].mode]
BuiltNow == call.op = "buildCandidates"

\* C24: the candidates built for (path, bust, isLocal, API_BASE) are decided
\* by these four inputs: in local development the single same-origin relay in
\* direct-JSON mode; otherwise the configured base (only when API_BASE is not
\* empty, direct), then the raw endpoint of the public relay (direct), its get
\* endpoint (wrapped) and the read-proxy (direct), in this order; every
\* candidate asks for the given path with the given cache-busting query, and
\* the list is never empty.
C24_CandidatesInOrder ==
    BuiltNow =>
        /\ Len(call.out) >= 1
        /\ \A i \in DOMAIN call.out :
              call.out[i].path = call.path /\ call.out[i].bust = call.bust
        /\ call.local =>
              /\ RelaysOf(call.out) = <<"vite-dev">>
              /\ ModesOf(call.out) = <<"json">>
        /\ (~call.local /\ call.base # "") =>
              /\ RelaysOf(call.out) = <<"api-base", "allorigins-raw", "allorigins-get", "jina">>
              /\ ModesOf(call.out) = <<"json", "json", "allorigins-get", "json">>
        /\ (~call.local /\ call.base = "") =>
              /\ RelaysOf(call.out) = <<"allorigins-raw", "allorigins-get", "jina">>
              /\ ModesOf(call.out) = <<"json", "allorigins-get", "json">>

C24_Witness ==
    /\ BuiltNow /\ ~call.local /\ call.base # ""
    /\ call.path = "api/random" /\ call.bust # ""
    /\ Len(call.out) = 4

\* ------------------------------------------------------------------- C25
NoDuplicates(favs) ==
    \A i \in DOMAIN favs : \A j \in DOMAIN favs :
        (favs[i].q = favs[j].q /\ favs[i].a = favs[j].a) => i = j

\* C25: from a stored favorites list without duplicates, whatever is shown,
\* toggled and removed, the list has at most 200 entries and no two entries
\* with the same text and author; a quote that toggleFavorite adds is the first
\* entry and the earlier entries follow it in their order; a toggle that
\* removes, and Remove, keep the remaining entries in their order.
C25_FavoritesCappedUniqueNewestFirst ==
    /\ [](Len(favorites) <= FAV_MAX /\ NoDuplicates(favorites))
    /\ [][/\ (call'.op = "toggleFavorite" /\ call'.added) =>
                /\ favorites'[1] = [q |-> quote.q, a |-> quote.a]
                /\ \A i \in 2..Len(favorites') : favorites'[i] = favorites[i - 1]
                /\ Len(favorites') = Min(Len(favorites) + 1, FAV_MAX)
          /\ (call'.op \in {"toggleFavorite", "remove"} /\ ~call'.added) =>
                /\ Len(favorites') = Len(favorites) - 1
                /\ favorites' = SelectSeq(favorites, LAMBDA f : f \in Range(favorites'))]_vars

C25_Witness ==
    /\ call.op = "toggleFavorite" /\ call.added /\ call.n = MaxFavSteps
    /\ Len(favorites) = FAV_MAX
    /\ favorites[1] = [q |-> "t1", a |-> "a2"]
    /\ favorites[2] = [q |-> "t1", a |-> "a1"]
    /\ favorites[FAV_MAX].q = "s198"

\* ------------------------------------------------------------------- C26
StartedNow == call.op = "start"
TimesIn(list, d) == Cardinality({i \in DOMAIN list : list[i] = d})

\* C26: after the app has started on day d, the stored visited-days list is a
\* list that holds d exactly once and daysVisited is the length of that list;
\* a start on the day of the start before it changes neither.
C26_VisitedDaysCountedOnce ==
    /\ [](StartedNow =>
            /\ storedDays.has /\ storedDays.wf /\ storedDays.arr
            /\ TimesIn(storedDays.items, call.day) = 1
            /\ daysVisited = Len(storedDays.items))
    /\ [][(call'.op = "start" /\ call'.again) =>
              UNCHANGED <<storedDays, daysVisited>>]_vars

C26_Witness ==
    /\ StartedNow /\ call.again
    /\ call.day = DayKey
    /\ daysVisited = 3
    /\ storedDays.items[3] = DayKey

EnvelopeNow ==
    /\ call.op = "tryUrl" /\ call.mode = "allorigins-get"
    /\ call.resp.kind = "http" /\ call.resp.status = 200
    /\ call.resp.body.wf /\ ~call.resp.body.val.arr
\* the payload denoted by the contents string c
PayloadOf(c) == [arr |-> c.arr, items |-> c.items, contents |-> NoStr]

\* C28: when the envelope of a wrapped candidate carries a contents string
\* that is JSON, the candidate yields the payload that string denotes, which
\* is what a direct-JSON candidate yields for a body that is this payload, so
\* both give the same quote; when contents is missing or is not JSON the
\* candidate fails.
C28_WrappedEqualsDirect ==
    EnvelopeNow =>
        LET c == call.resp.body.val.contents
            direct == tryUrl(Http(200, Body(PayloadOf(c))), "json")
        IN IF c.has /\ c.wf
           THEN /\ call.out.ok
                /\ call.out.data = PayloadOf(c)
                /\ call.out = direct
                /\ ValidShape(call.out.data) = ValidShape(direct.data)
                /\ ValidShape(direct.data) => FirstQuote(call.out.data) = FirstQuote(direct.data)
           ELSE ~call.out.ok

C28_Witness ==
    /\ EnvelopeNow
    /\ call.resp.body.val.contents = StrOf(TRUE, <<E2>>)
    /\ call.out.ok /\ FirstQuote(call.out.data) = Quote("t2", "a2")

C28_WitnessMissing ==
    /\ EnvelopeNow
    /\ ~call.resp.body.val.contents.has
    /\ ~call.out.ok

\* ---------------------------------------------------------------- C31..C36
\* C31: whenever a load is in flight (it has passed the gate and has not
\* reached its finally block), the loading flag is true.
C31_LoadingWhileInFlight == (Pending # {}) => loading

\* ------------------------------------------------------------------- C32
InFlight(k) == loads[k].pc # "idle"
Texts == {"t1", "t2"}

\* C32: a load that has passed the gate completes in the end, when every
\* request is answered or aborted. On the way the candidate index of a fetch
\* only moves to the next candidate and stays within the candidates; the load
\* only moves forward through first fetch, second fetch and list fetch, a
\* today load having the first fetch only; a pick from the list draws at most
\* MAX_TRIES + 1 times; and the step in which the load ends sets loading false.
C32_EveryLoadCompletes ==
    /\ \A k \in Slots : InFlight(k) ~> ~InFlight(k)
    /\ [](\A k \in Slots : InFlight(k) =>
             /\ loads[k].idx \in 1..Len(CandidatesOf(loads[k]))
             /\ (loads[k].which = "today" => loads[k].pc = "zen0"))
    /\ [][/\ \A k \in Slots : InFlight(k) =>
                /\ PhaseRank(loads'[k].pc) >= PhaseRank(loads[k].pc)
                /\ loads'[k].pc = loads[k].pc =>
                       loads'[k].idx \in {loads[k].idx, loads[k].idx + 1}
                /\ (loads'[k].pc # "idle" /\ loads'[k].pc # loads[k].pc) => loads'[k].idx = 1
          /\ (SettledNow /\ obs'.fetch = "continue") =>
                /\ loads'[obs'.slot].pc = Before.pc
                /\ loads'[obs'.slot].idx = Before.idx + 1
          /\ (SettledNow /\ obs'.from = "list") =>
                \A rs \in SUBSET Texts :
                    \A n \in DrawCounts(IF obs'.phase = "all" THEN ListFetched ELSE ListStored,
                                        rs, 0) : n <= MAX_TRIES + 1
          /\ (SettledNow /\ obs'.end # "") =>
                (loads'[obs'.slot].pc = "idle" /\ ~loading')]_vars

C32_Witness ==
    /\ Settled /\ obs.which = "random" /\ obs.phase = "all"
    /\ obs.idx = 3 /\ obs.end = "error"
    /\ Pending = {} /\ ~loading

\* ------------------------------------------------------------------- C33
\* a load passed the gate less than THROTTLE_MS ago
PassedLately == \E w \in Kinds : lastPass[w] # -1 /\ now - lastPass[w] < THROTTLE_MS
\* a load ended rate-limited less than BACKOFF_429_MS ago
BackoffRunning == rlAt # -1 /\ now < rlAt + BACKOFF_429_MS

\* C33: in the revision of src/src/App.tsx a load call made less than
\* THROTTLE_MS after a load that passed the gate, or before the backoff an
\* earlier load has set is over, is dropped: it sends no request and starts no
\* load.
C33_GateSurvivesRenders ==
    [][(obs'.act = "load" /\ (PassedLately \/ BackoffRunning)) =>
          (obs'.gate = "dropped" /\ obs'.issued = 0 /\ UNCHANGED loads)]_vars

\* ------------------------------------------------------------------- C34
\* C34: lastCallRef.current never decreases, whatever loads are called, overlap,
\* end or fail rate-limited; and while the backoff of a rate-limited load is
\* running it is not below the deadline of that backoff.
C34_LastCallNeverDecreases ==
    /\ [][lastCall' >= lastCall]_vars
    /\ [](BackoffRunning => lastCall >= rlAt + BACKOFF_429_MS)

C34_Witness ==
    /\ Settled /\ obs.end = "error" /\ Includes429(obs.msg)
    /\ Pending # {}
    /\ lastCall = now + BACKOFF_429_MS
    /\ now > StartTime

\* ------------------------------------------------------------------- C35
\* a random load ends in an error in this step
RandomFailsNow == SettledNow /\ obs'.which = "random" /\ obs'.end = "error"

\* C35 (as claimed): the step in which a random load ends in an error changes
\* nothing of the program's state but error, loading and, when the error is a
\* 429, the last-call timestamp.
C35_FailedRandomChangesOnlyErrorState ==
    [][RandomFailsNow =>
          /\ UNCHANGED <<quote, recent, todayCache, allQuotes>>
          /\ (lastCall' # lastCall) => Includes429(obs'.msg)]_vars

\* C35: the step in which a random load ends in an error leaves the displayed
\* quote, the recent ring and the today entry as they were, sets loading false
\* and error to the message of the error, moves the last-call timestamp only
\* when the error is a 429, and changes the stored list of the day only when
\* the error follows a list fetch that returned, in which case the cleaned
\* list is stored; no step of a random load before its last changes any of
\* quote, recent ring and today entry either.
C35_FailedRandomKeepsQuoteRingCache ==
    [][/\ RandomFailsNow =>
             /\ UNCHANGED <<quote, recent, todayCache>>
             /\ ~loading' /\ error' = Classify(obs'.msg)
             /\ lastCall' = IF Includes429(obs'.msg) THEN now + BACKOFF_429_MS ELSE lastCall
             /\ (allQuotes' # allQuotes) =>
                    (/\ obs'.phase = "all" /\ obs'.fetch = "return"
                     /\ allQuotes'[DayKey] = StrOf(TRUE, ListFetched))
       /\ (obs'.which = "random" /\ obs'.act \in {"load", "settle"} /\ obs'.end # "ok") =>
             UNCHANGED <<quote, recent, todayCache>>]_vars

C35_Witness ==
    /\ Settled /\ obs.which = "random" /\ obs.end = "error"
    /\ obs.phase = "all" /\ obs.fetch = "return"
    /\ obs.msg = MsgNoNew
    /\ allQuotes[DayKey] = StrOf(TRUE, <<>>)
    /\ quote = Quote("t1", "a1") /\ recent = <<"t1">>

\* ------------------------------------------------------------------- C36
\* toggleFavorite has been called twice in a row; call.prev is the list before
\* the first of the two calls
ToggledTwice == call.op = "toggleFavorite" /\ call.twice

\* C36 (as claimed): two calls of toggleFavorite in a row on the displayed
\* quote give back the favorites list there was before them.
C36_ToggleTwiceRestores == ToggledTwice => favorites = call.prev

\* C36: two calls of toggleFavorite in a row on the displayed quote give back
\* the list there was before them when the quote was not in it and it had
\* fewer than 200 entries; when it had 200 entries its last entry is lost; and
\* when the quote was in the list, the quote is the first entry afterwards and
\* the other entries follow in their order.
C36_ToggleTwiceRestoresBelowCap ==
    ToggledTwice =>
        IF ~call.added
        THEN favorites = SubSeq(call.prev, 1, Min(Len(call.prev), FAV_MAX - 1))
        ELSE favorites = << [q |-> quote.q, a |-> quote.a] >>
                             \o SelectSeq(call.prev, LAMBDA f : f # [q |-> quote.q, a |-> quote.a])

C36_Witness ==
    /\ ToggledTwice /\ ~call.added
    /\ call.prev = <<E1, E2>>
    /\ quote = Quote("t1", "a2")
    /\ favorites = <<E1, E2>>

====
